---- MODULE Spec2Model ----
(***************************************************************************)
(* A model of src/part1.py: the Rate My Professors scraper.                *)
(*                                                                         *)
(*  - Spec      : one source's session (save_school_data, session_data,    *)
(*                load_and_store_all_content, click_showmore, hide_overlay, *)
(*                store_and_delete_cards, extract_prof_data,                *)
(*                free_card_memory) against a page that reveals panels,    *)
(*                removes its load-more control and presents overlays.     *)
(*  - SpecMain  : main and its outer thread pool over the schools.         *)
(*  - SpecParse : the would-take-again parsing of extract_prof_data on     *)
(*                every short text.                                        *)
(*                                                                         *)
(* Texts are sequences of one-character strings.                           *)
(***************************************************************************)
EXTENDS Integers, Sequences, FiniteSets, TLC

VARIABLES
    \* ---- would-take-again parsing (SpecParse)
    take_again_pct_text,  \* the text read from feedback[0]
    take_again_pct        \* the outcome of lines 192-196 on it

VARIABLES
    \* ---- main and the outer pool (SpecMain)
    cpu_count,    \* os.cpu_count(); 0 stands for None
    gecko,        \* what handle_gecko_errors finds at GECKO_PATH
    mainpc,       \* where main is
    main_exc,     \* the exception main ends with, "none" if none
    future,       \* per school, the state of its future in the outer pool
    next_result,  \* the school whose result list() waits for next
    inner_threads \* per school, the worker threads of its session's inner pool

VARIABLES
    \* ---- one school's session (Spec): the program
    MAX_SCROLL_TIME,  \* the pagination budget, in clock ticks
    elapsed,          \* time.time() - start_time, in ticks, saturating
    pc,               \* where the session's thread is
    driver,           \* the Firefox session: "none", "open", "quit"
    phase,            \* which call of store_and_delete_cards: "initial", "loop"
    prof_cards,       \* the panels found by the current call, in document order
    tpc,              \* per panel, where its extract_prof_data task is
    tres,             \* per panel, what its task returned or raised
    prof_data,        \* the records accumulated by load_and_store_all_content
    more_content,     \* the loop flag of load_and_store_all_content
    depth,            \* nested click_showmore calls below the loop's call
    el_class,         \* the class click_showmore gives hide_overlay; 0 outside
    exc,              \* the exception on its way up, "none" if none
    scroll_warnings,  \* SCROLL_TIME_WARN warnings emitted
    no_data_warnings, \* NO_DATA_WARN warnings emitted
    output,           \* what write_csv was given; <<"unwritten">> before
    raised,           \* the exception that left save_school_data, if any
    max_workers,      \* the capacity the inner pools are built with
    \* ---- the page
    control,          \* the load-more control is present and clickable
    overlays,         \* the overlays over the control, topmost first
    overlays_made,    \* overlays presented during the current activation
    hidden,           \* the overlays hidden by the current click_showmore, in order
    dom,              \* the panels attached to the document
    content,          \* per panel, its fields as rendered
    revealed,         \* panels rendered so far; they are numbered 1..revealed
    \* ---- history
    exhausted_by,     \* which bounded wait's timeout cleared more_content
    clicked,          \* an activation of the load-more control was attempted
    extractions       \* per panel, extract_prof_data tasks created (up to 2)

parseVars == <<take_again_pct_text, take_again_pct>>
mainVars == <<cpu_count, gecko, mainpc, main_exc, future, next_result,
              inner_threads>>
progVars == <<MAX_SCROLL_TIME, elapsed, pc, driver, phase, prof_cards, tpc, tres,
              prof_data, more_content, depth, el_class, exc, scroll_warnings,
              no_data_warnings, output, raised, max_workers>>
pageVars == <<control, overlays, overlays_made, hidden, dom, content, revealed>>
histVars == <<exhausted_by, clicked, extractions>>
sessVars == <<progVars, pageVars, histVars>>

vars == <<parseVars, mainVars, sessVars>>

----------------------------------------------------------------------------
(* Bounds of the model *)

\* longest text given to the would-take-again parsing
MaxLen == 4
\* largest number of processing units os.cpu_count() reports
MaxCpu == 4
\* largest pagination budget, in clock ticks
MaxBudget == 2
\* panels a page renders in all
MaxPanels == 2
\* overlays a page presents during one activation of the load-more control
MaxOverlays == 2

----------------------------------------------------------------------------
(* Texts and Python's conversions *)

Digits == {"0", "1", "2", "3", "4", "5", "6", "7", "8", "9"}

DigitVal(c) ==
    CASE c = "0" -> 0 [] c = "1" -> 1 [] c = "2" -> 2 [] c = "3" -> 3
      [] c = "4" -> 4 [] c = "5" -> 5 [] c = "6" -> 6 [] c = "7" -> 7
      [] c = "8" -> 8 [] c = "9" -> 9

\* the characters the bounded texts are made of
Chars == {"0", "1", "3", "7", "%", "N", "/", "A", "-"}

AllDigits(s) == \A i \in 1..Len(s) : s[i] \in Digits

RECURSIVE DigitsValue(_)
DigitsValue(s) ==
    IF s = << >> THEN 0
    ELSE 10 * DigitsValue(SubSeq(s, 1, Len(s) - 1)) + DigitVal(s[Len(s)])

\* s[:-1]: the text without its last character (the empty text stays empty)
DropLast(s) == SubSeq(s, 1, Len(s) - 1)

\* int(s) on a text over Chars: an optional sign, then one or more decimal
\* digits; anything else raises ValueError.  (Python also accepts "+",
\* surrounding blanks and "_" between digits; none of them is in Chars.)
PyInt(s) ==
    LET neg  == Len(s) > 0 /\ s[1] = "-"
        body == IF neg THEN SubSeq(s, 2, Len(s)) ELSE s
    IN  IF Len(body) > 0 /\ AllDigits(body)
        THEN [tag |-> "int",
              val |-> IF neg THEN 0 - DigitsValue(body) ELSE DigitsValue(body)]
        ELSE [tag |-> "ValueError", val |-> 0]

NA == <<"N", "/", "A">>

\* lines 192-196: "N/A" is None; otherwise the last character is dropped,
\* whatever it is, and the rest is given to int()
ParseTakeAgain(text) ==
    IF text = NA THEN [tag |-> "None", val |-> 0]
    ELSE PyInt(DropLast(text))

RECURSIVE Texts(_)
Texts(n) ==
    IF n = 0 THEN {<< >>}
    ELSE LET shorter == Texts(n - 1)
         IN  shorter \cup {Append(s, c) : s \in {t \in shorter : Len(t) = n - 1},
                                          c \in Chars}

----------------------------------------------------------------------------
(* SpecParse: the would-take-again parsing on every text up to MaxLen *)

Pending == [tag |-> "pending", val |-> 0]

ParseIdle ==
    /\ take_again_pct_text = << >>
    /\ take_again_pct = Pending

MainIdle ==
    /\ cpu_count = 0
    /\ gecko = "ok"
    /\ mainpc = "idle"
    /\ main_exc = "none"
    /\ future = << >>
    /\ next_result = 1
    /\ inner_threads = << >>

Panels == 1..MaxPanels

NoContent == [name |-> "", rating |-> << >>, department |-> "",
              feedback |-> << >>, missing |-> {}]
NoRecord == [Name |-> "", Rating |-> [num |-> 0, dec |-> 0],
             WouldTakeAgain |-> [tag |-> "None", val |-> 0],
             Difficulty |-> [num |-> 0, dec |-> 0], Department |-> ""]
NoResult == [tag |-> "none", exc |-> "none", rec |-> NoRecord]
NoError == [type |-> "none", school |-> FALSE, cause |-> "none"]

\* the session before save_school_data has done anything
SessFresh ==
    /\ elapsed = 0
    /\ driver = "none"
    /\ phase = "initial"
    /\ prof_cards = << >>
    /\ tpc = [p \in Panels |-> "idle"]
    /\ tres = [p \in Panels |-> NoResult]
    /\ prof_data = << >>
    /\ more_content = TRUE
    /\ depth = 0
    /\ el_class = 0
    /\ exc = "none"
    /\ scroll_warnings = 0
    /\ no_data_warnings = 0
    /\ output = <<"unwritten">>
    /\ raised = NoError
    /\ control = FALSE
    /\ overlays = << >>
    /\ overlays_made = 0
    /\ hidden = << >>
    /\ dom = {}
    /\ content = [p \in Panels |-> NoContent]
    /\ revealed = 0
    /\ exhausted_by = "none"
    /\ clicked = FALSE
    /\ extractions = [p \in Panels |-> 0]

SessIdle ==
    /\ MAX_SCROLL_TIME = 0
    /\ max_workers = 0
    /\ pc = "idle"
    /\ SessFresh

InitParse ==
    /\ take_again_pct_text \in Texts(MaxLen)
    /\ take_again_pct = Pending
    /\ MainIdle
    /\ SessIdle

ParseStep ==
    /\ take_again_pct = Pending
    /\ take_again_pct' = ParseTakeAgain(take_again_pct_text)
    /\ UNCHANGED <<take_again_pct_text, mainVars, sessVars>>

NextParse == ParseStep

SpecParse == InitParse /\ [][NextParse]_vars

\* one or more digits followed by a percent sign
IsDigitsPercent(t) ==
    /\ Len(t) >= 2
    /\ t[Len(t)] = "%"
    /\ AllDigits(DropLast(t))

\* C10: the would-take-again parsing maps "N/A" to an absent value and a
\* string of digits followed by a percent sign to that integer; every other
\* text is a parse failure, and a produced value is an integer in 0..100.
C10_TakeAgainParsing ==
    take_again_pct # Pending =>
        LET t == take_again_pct_text
        IN  /\ t = NA => take_again_pct.tag = "None"
            /\ IsDigitsPercent(t) =>
                   take_again_pct = [tag |-> "int", val |-> DigitsValue(DropLast(t))]
            /\ (t # NA /\ ~IsDigitsPercent(t)) => take_again_pct.tag = "ValueError"
            /\ take_again_pct.tag = "int" => take_again_pct.val \in 0..100

----------------------------------------------------------------------------
(* SpecMain: main, the outer pool and the schools' sessions *)

\* SCHOOL_IDS has five entries; executor.map submits them in this order
NumSchools == 5
Schools == 1..NumSchools

\* line 120
MAX_INNER_THREADS == 6

\* line 118: (os.cpu_count() or 4) // 2
MAX_OUTER_THREADS == (IF cpu_count = 0 THEN 4 ELSE cpu_count) \div 2

Running == {s \in Schools : future[s] = "running"}
Queued == {s \in Schools : future[s] = "pending"}

InitMain ==
    /\ cpu_count \in 0..MaxCpu
    /\ gecko \in {"ok", "missing", "not_executable"}
    /\ mainpc = "check_gecko"
    /\ main_exc = "none"
    /\ future = [s \in Schools |-> "unsubmitted"]
    /\ next_result = 1
    /\ inner_threads = [s \in Schools |-> 0]
    /\ ParseIdle
    /\ SessIdle

\* handle_gecko_errors, then start_time
CheckGecko ==
    /\ mainpc = "check_gecko"
    /\ IF gecko = "ok"
          THEN mainpc' = "make_pool" /\ UNCHANGED main_exc
          ELSE /\ mainpc' = "raised"
               /\ main_exc' = IF gecko = "missing" THEN "FileNotFoundError"
                                                   ELSE "PermissionError"
    /\ UNCHANGED <<cpu_count, gecko, future, next_result, inner_threads,
                 parseVars, sessVars>>

\* ThreadPoolExecutor(MAX_OUTER_THREADS): max_workers <= 0 raises ValueError
MakePool ==
    /\ mainpc = "make_pool"
    /\ IF MAX_OUTER_THREADS <= 0
          THEN mainpc' = "raised" /\ main_exc' = "ValueError"
          ELSE mainpc' = "submit" /\ UNCHANGED main_exc
    /\ UNCHANGED <<cpu_count, gecko, future, next_result, inner_threads,
                 parseVars, sessVars>>

\* executor.map submits every school, in order, before it returns the
\* iterator of results; the workers start on the submitted ones meanwhile
Submit ==
    /\ mainpc = "submit"
    /\ LET left == {s \in Schools : future[s] = "unsubmitted"}
       IN  IF left = {}
             THEN mainpc' = "consume" /\ UNCHANGED future
             ELSE LET s == CHOOSE x \in left : \A y \in left : x <= y
                  IN  /\ future' = [future EXCEPT ![s] = "pending"]
                      /\ UNCHANGED mainpc
    /\ UNCHANGED <<cpu_count, gecko, main_exc, next_result, inner_threads,
                 parseVars, sessVars>>

\* a free worker of the outer pool takes the oldest queued school and
\* calls save_school_data on it
StartSession(s) ==
    /\ future[s] = "pending"
    /\ \A t \in Queued : s <= t
    /\ Cardinality(Running) < MAX_OUTER_THREADS
    /\ future' = [future EXCEPT ![s] = "running"]
    /\ UNCHANGED <<cpu_count, gecko, mainpc, main_exc, next_result, inner_threads,
                 parseVars, sessVars>>

\* store_and_delete_cards in a running session, lines 213-214: a fresh
\* inner pool, which starts one worker thread per submitted task until it
\* has MAX_INNER_THREADS of them
OpenInnerPool(s) ==
    /\ future[s] = "running"
    /\ inner_threads[s] = 0
    /\ \E n \in 1..MAX_INNER_THREADS :
           inner_threads' = [inner_threads EXCEPT ![s] = n]
    /\ UNCHANGED <<cpu_count, gecko, mainpc, main_exc, future, next_result,
                   parseVars, sessVars>>

\* leaving that with block joins the inner pool's workers
JoinInnerPool(s) ==
    /\ inner_threads[s] > 0
    /\ inner_threads' = [inner_threads EXCEPT ![s] = 0]
    /\ UNCHANGED <<cpu_count, gecko, mainpc, main_exc, future, next_result,
                   parseVars, sessVars>>

\* save_school_data returns (the CSV is written) or raises RuntimeError
FinishSession(s) ==
    /\ future[s] = "running"
    /\ inner_threads[s] = 0
    /\ \E outcome \in {"ok", "error"} :
           future' = [future EXCEPT ![s] = outcome]
    /\ UNCHANGED <<cpu_count, gecko, mainpc, main_exc, next_result, inner_threads,
                 parseVars, sessVars>>

\* what list() does with the finished future it waited for
SwallowResult(f) == "next"
ConsumeResult(f) == IF f = "error" THEN "raise" ELSE "next"

\* list(executor.map(...)): the results are taken in submission order; the
\* first failed one is re-raised in main, and the iterator, on its way out,
\* cancels every later future that has not started
Consume ==
    /\ mainpc = "consume"
    /\ IF next_result > NumSchools
          THEN mainpc' = "shutdown" /\ UNCHANGED <<future, main_exc, next_result>>
          ELSE /\ future[next_result] \in {"ok", "error"}
               /\ IF ConsumeResult(future[next_result]) = "raise"
                     THEN /\ main_exc' = "RuntimeError"
                          /\ future' = [s \in Schools |->
                                 IF s > next_result /\ future[s] = "pending"
                                 THEN "cancelled" ELSE future[s]]
                          /\ mainpc' = "shutdown"
                          /\ UNCHANGED next_result
                     ELSE /\ next_result' = next_result + 1
                          /\ UNCHANGED <<future, main_exc, mainpc>>
    /\ UNCHANGED <<cpu_count, gecko, inner_threads,
                 parseVars, sessVars>>

\* leaving the with block: shutdown(wait=True) joins the workers, which
\* first finish what is running and what is still queued
Shutdown ==
    /\ mainpc = "shutdown"
    /\ Running = {} /\ Queued = {}
    /\ mainpc' = IF main_exc = "none" THEN "print" ELSE "raised"
    /\ UNCHANGED <<cpu_count, gecko, main_exc, future, next_result, inner_threads,
                 parseVars, sessVars>>

\* lines 134-135
PrintElapsed ==
    /\ mainpc = "print"
    /\ mainpc' = "done"
    /\ UNCHANGED <<cpu_count, gecko, main_exc, future, next_result, inner_threads,
                 parseVars, sessVars>>

NextMain ==
    \/ CheckGecko
    \/ MakePool
    \/ Submit
    \/ \E s \in Schools : StartSession(s)
    \/ \E s \in Schools : OpenInnerPool(s)
    \/ \E s \in Schools : JoinInnerPool(s)
    \/ \E s \in Schools : FinishSession(s)
    \/ Consume
    \/ Shutdown
    \/ PrintElapsed

SpecMain == InitMain /\ [][NextMain]_vars

MainEnded == mainpc \in {"done", "raised"}

\* C7: a fatal failure of one school's session does not stop any sibling
\* already submitted to the outer pool: when main ends, every submitted
\* school has run its session to its own outcome.
C7_SiblingsRunToOutcome ==
    MainEnded => \A s \in Schools : future[s] \in {"unsubmitted", "ok", "error"}

\* C8: every school is submitted before any result is consumed, and if any
\* school's session raised, main does not end normally: it ends with an
\* exception.
C8_FailuresReachMain ==
    /\ (next_result > 1 \/ main_exc = "RuntimeError") =>
           \A s \in Schools : future[s] # "unsubmitted"
    /\ mainpc \in {"print", "done"} => \A s \in Schools : future[s] # "error"
    /\ (MainEnded /\ \E s \in Schools : future[s] = "error") =>
           (mainpc = "raised" /\ main_exc = "RuntimeError")

\* main ended with a later school's failure, after an earlier school's
\* success was consumed
C8_Witness ==
    /\ mainpc = "raised"
    /\ \E s, t \in Schools : t < s /\ future[t] = "ok" /\ future[s] = "error"

\* C11: the outer pool's capacity is half the number of processing units
\* (4 units when the number is unknown) and never below 2, so for every
\* processor count the pool is constructed and can run two schools at once.
C11_OuterPoolAtLeastTwo ==
    /\ main_exc # "ValueError"
    /\ mainpc \in {"submit", "consume", "shutdown", "print", "done"} =>
           MAX_OUTER_THREADS >= 2

RECURSIVE SumOver(_, _)
SumOver(f, S) ==
    IF S = {} THEN 0
    ELSE LET x == CHOOSE y \in S : TRUE IN f[x] + SumOver(f, S \ {x})

\* the worker threads known to be alive: the outer pool's workers that are
\* running a session, and the workers of those sessions' inner pools
ThreadsAlive == Cardinality(Running) + SumOver(inner_threads, Schools)

\* C20: with the outer pool of MAX_OUTER_THREADS workers and an inner pool
\* of MAX_INNER_THREADS workers per batch in each session, the worker
\* threads alive at any time, outer and inner together, number at most
\* three times the processing units, whatever their number.
C20_ThreadsAtMostThreeTimesCpus ==
    cpu_count > 0 => ThreadsAlive <= 3 * cpu_count

----------------------------------------------------------------------------
(* Spec: one school's session *)

\* the inner pool's capacity: the program's, and the smallest a pool can
\* have, under which the tasks of a batch run one after the other
InnerCapacities == {1, MAX_INNER_THREADS}

\* float(s) on a text of digits and ".": at most one ".", at least one
\* digit; the value is num / 10^dec.  Any other text over the characters
\* used here raises ValueError.
PyFloat(s) ==
    LET digits == SelectSeq(s, LAMBDA c : c # ".")
        dots   == Len(s) - Len(digits)
        point  == IF dots = 0 THEN Len(s) + 1
                  ELSE CHOOSE i \in 1..Len(s) : s[i] = "."
    IN  IF Len(digits) > 0 /\ AllDigits(digits) /\ dots <= 1
        THEN [tag |-> "float", num |-> DigitsValue(digits),
              dec |-> IF dots = 0 THEN 0 ELSE Len(s) - point]
        ELSE [tag |-> "ValueError", num |-> 0, dec |-> 0]

\* the panels a page renders
Smith ==
    [name |-> "J. Smith", rating |-> <<"4", ".", "1">>, department |-> "Math",
     feedback |-> << <<"6", "0", "%">>, <<"3", ".", "2">> >>, missing |-> {}]
Unrated ==
    [name |-> "A. Jones", rating |-> <<"0">>, department |-> "Physics",
     feedback |-> << NA, <<"0">> >>, missing |-> {}]
BadRating == [Smith EXCEPT !.rating = NA]
NoDepartment == [Smith EXCEPT !.missing = {"department"}]
OneFeedback == [Smith EXCEPT !.feedback = << <<"6", "0", "%">> >>]
BadPercent == [Smith EXCEPT !.feedback = << <<"%">>, <<"3", ".", "2">> >>]

PanelKinds == {Smith, Unrated, BadRating, NoDepartment, OneFeedback, BadPercent}

\* lines 183-196, field by field: "ok", or the exception the field raises
FieldOutcome(c, field) ==
    CASE field = "name" ->
           IF "name" \in c.missing THEN "NoSuchElementException" ELSE "ok"
      [] field = "rating" ->
           IF "rating" \in c.missing THEN "NoSuchElementException"
           ELSE IF PyFloat(c.rating).tag = "ValueError" THEN "ValueError"
           ELSE "ok"
      [] field = "department" ->
           IF "department" \in c.missing THEN "NoSuchElementException" ELSE "ok"
      [] field = "feedback" ->
           IF Len(c.feedback) < 2 THEN "IndexError"
           ELSE IF PyFloat(c.feedback[2]).tag = "ValueError" THEN "ValueError"
           ELSE IF ParseTakeAgain(c.feedback[1]).tag = "ValueError" THEN "ValueError"
           ELSE "ok"

\* the order in which the try block reads the fields
Fields == <<"name", "rating", "department", "feedback">>

\* the try block of extract_prof_data, lines 183-204: "ok" when it reaches
\* its return, otherwise the exception of the first field that raises
TryBlock(c) ==
    LET bad == {i \in 1..Len(Fields) : FieldOutcome(c, Fields[i]) # "ok"}
    IN  IF bad = {} THEN "ok"
        ELSE FieldOutcome(c, Fields[CHOOSE i \in bad : \A j \in bad : i <= j])

\* lines 198-204
RecordOf(c) ==
    [Name           |-> c.name,
     Rating         |-> [num |-> PyFloat(c.rating).num, dec |-> PyFloat(c.rating).dec],
     WouldTakeAgain |-> ParseTakeAgain(c.feedback[1]),
     Difficulty     |-> [num |-> PyFloat(c.feedback[2]).num,
                         dec |-> PyFloat(c.feedback[2]).dec],
     Department     |-> c.department]

\* where extract_prof_data goes when its try block is left, by a return
\* ("ok") or by an exception: the finally clause, lines 205-206, which
\* calls free_card_memory; at line 174 the task's thread sends the script
\* to the session's driver (card.parent), and the script is then in flight
OnExitNoFinally(outcome) == IF outcome = "ok" THEN "freeing" ELSE "done"
OnExit(outcome) == "freeing"

\* free_card_memory: el.parentNode.removeChild(el)
DetachNothing(d, p) == d
DetachFirst(d, p) == d \ {CHOOSE x \in d : \A y \in d : x <= y}
Detach(d, p) == d \ {p}

\* line 226
LoopContinuesInclusive(more, e, budget) == more /\ e <= budget
LoopContinues(more, e, budget) == more /\ e < budget

\* line 230: the exceptions the loop takes for the end of pagination
CaughtAny(e) == TRUE
Caught(e) == e = "TimeoutException"

\* a blocking call lets the clock stand (less than a tick) or advance
Advance(e) == {e, IF e < MaxBudget THEN e + 1 ELSE e}

RECURSIVE SortedSeq(_)
SortedSeq(S) ==
    IF S = {} THEN << >>
    ELSE LET m == CHOOSE x \in S : \A y \in S : x <= y
         IN  <<m>> \o SortedSeq(S \ {m})

Batch == {prof_cards[i] : i \in 1..Len(prof_cards)}

\* the class names re.findall finds in the interception message: the
\* control's own, then the blocking element's if it has a class attribute
OverlayKinds == {"plain", "unlocatable", "noclass"}
InterceptMatches(o) ==
    IF o.kind = "noclass" THEN <<"showmore">> ELSE <<"showmore", o.id>>

\* what presence_of_element_located((By.CLASS_NAME, cls)) finds
Located(cls) ==
    {i \in 1..Len(overlays) : overlays[i].id = cls /\ overlays[i].kind = "plain"}

Init ==
    /\ MAX_SCROLL_TIME \in 0..MaxBudget
    /\ max_workers \in InnerCapacities
    /\ pc = "create"
    /\ SessFresh
    /\ ParseIdle
    /\ MainIdle

\* save_school_data up to session_data's Firefox(options, Service(...))
OpenSession ==
    /\ pc = "create"
    /\ \/ driver' = "open" /\ pc' = "navigate" /\ UNCHANGED exc
       \/ exc' = "WebDriverException" /\ pc' = "wrap" /\ UNCHANGED driver
    /\ UNCHANGED <<MAX_SCROLL_TIME, elapsed, phase, prof_cards, tpc, tres, prof_data,
                   more_content, depth, el_class, scroll_warnings,
                   no_data_warnings, output, pageVars, histVars, raised, max_workers,
                   parseVars, mainVars>>

\* lines 243-244: the page renders its initial panels, with or without a
\* load-more control
Navigate ==
    /\ pc = "navigate"
    /\ \/ /\ \E n \in 0..MaxPanels : \E ks \in [1..n -> PanelKinds] :
               /\ dom' = 1..n
               /\ content' = [p \in Panels |-> IF p \in 1..n THEN ks[p] ELSE content[p]]
               /\ revealed' = n
          /\ control' \in BOOLEAN
          /\ pc' = "find"
          /\ phase' = "initial"
          /\ UNCHANGED exc
       \/ /\ exc' = "WebDriverException"
          /\ pc' = "teardown"
          /\ UNCHANGED <<dom, content, revealed, control, phase>>
    /\ UNCHANGED <<MAX_SCROLL_TIME, elapsed, driver, prof_cards, tpc, tres, prof_data,
                   more_content, depth, el_class, scroll_warnings, no_data_warnings,
                   output, overlays, overlays_made, hidden, exhausted_by, clicked,
                   extractions, raised, max_workers,
                   parseVars, mainVars>>

\* store_and_delete_cards, lines 211-214: find the attached panels and
\* submit one extract_prof_data task per panel to a fresh inner pool.  The
\* pool starts a worker per submitted task up to its capacity; the tasks
\* beyond that wait in its queue for a worker to finish.
FindCards ==
    /\ pc = "find"
    /\ prof_cards' = SortedSeq(dom)
    /\ tpc' = [p \in Panels |->
          IF p \notin dom THEN "idle"
          ELSE IF Cardinality({q \in dom : q < p}) < max_workers THEN "try"
          ELSE "queued"]
    /\ tres' = [p \in Panels |-> NoResult]
    /\ extractions' = [p \in Panels |->
          IF p \in dom /\ extractions[p] < 2 THEN extractions[p] + 1
          ELSE extractions[p]]
    /\ pc' = "pool"
    /\ UNCHANGED <<MAX_SCROLL_TIME, elapsed, driver, phase, prof_data, more_content,
                   depth, el_class, exc, scroll_warnings, no_data_warnings, output,
                   pageVars, exhausted_by, clicked, raised, max_workers,
                   parseVars, mainVars>>

\* extract_prof_data, the try block: the panel's fields are read and
\* parsed; the block returns the record or raises.  Reading an element
\* that is no longer attached raises StaleElementReferenceException.
TaskTry(p) ==
    /\ tpc[p] = "try"
    /\ LET r == IF p \in dom THEN TryBlock(content[p])
                ELSE "StaleElementReferenceException"
       IN  /\ tres' = [tres EXCEPT ![p] =
                 IF r = "ok"
                 THEN [tag |-> "record", exc |-> "none", rec |-> RecordOf(content[p])]
                 ELSE [tag |-> "raised", exc |-> r, rec |-> NoRecord]]
           /\ tpc' = [tpc EXCEPT ![p] = OnExit(r)]
    /\ UNCHANGED <<MAX_SCROLL_TIME, elapsed, pc, driver, phase, prof_cards,
                   prof_data, more_content, depth, el_class, exc, scroll_warnings,
                   no_data_warnings, output, pageVars, histVars, raised, max_workers,
                   parseVars, mainVars>>

\* free_card_memory, lines 175-177: the script removes the panel; the task
\* ends and its worker takes the oldest queued task, if any
FreeEnd(p) ==
    /\ tpc[p] = "freeing"
    /\ dom' = Detach(dom, p)
    /\ LET waiting == {q \in Panels : tpc[q] = "queued"}
       IN  tpc' = [q \in Panels |->
                 IF q = p THEN "done"
                 ELSE IF q \in waiting /\ \A w \in waiting : q <= w THEN "try"
                 ELSE tpc[q]]
    /\ UNCHANGED <<MAX_SCROLL_TIME, elapsed, pc, driver, phase, prof_cards, tres,
                   prof_data, more_content, depth, el_class, exc, scroll_warnings,
                   no_data_warnings, output, control, overlays, overlays_made,
                   hidden, content, revealed, histVars, raised, max_workers,
                   parseVars, mainVars>>

\* lines 213-216: list(results) is outside the with block, whose exit
\* (shutdown(wait=True)) returns once every task of the batch has ended.
\* Taken inside the block, list(results) would re-raise the first failed
\* task's exception as soon as that task and those before it have ended.
BatchFailedFast ==
    \/ \A p \in Batch : tpc[p] = "done"
    \/ \E i \in 1..Len(prof_cards) :
          /\ tres[prof_cards[i]].tag = "raised"
          /\ \A j \in 1..i : tpc[prof_cards[j]] = "done"
BatchNotJoined == TRUE
BatchJoined == \A p \in Batch : tpc[p] = "done"

\* store_and_delete_cards, lines 213-216: leaving the with block joins the
\* inner pool; list(results) then yields the records in submission order or
\* re-raises the first task's exception.  The caller is line 221 or line 229.
CollectResults ==
    /\ pc = "pool"
    /\ BatchJoined
    /\ LET failed == {i \in 1..Len(prof_cards) : tres[prof_cards[i]].tag = "raised"}
           first  == CHOOSE i \in failed : \A j \in failed : i <= j
           e      == tres[prof_cards[first]].exc
           recs   == [i \in 1..Len(prof_cards) |-> tres[prof_cards[i]].rec]
       IN  IF failed # {}
             THEN IF phase = "loop" /\ Caught(e)
                    THEN /\ more_content' = FALSE
                         /\ exhausted_by' = "extraction"
                         /\ pc' = "loop"
                         /\ UNCHANGED <<exc, prof_data, elapsed, phase>>
                    ELSE /\ exc' = e
                         /\ pc' = "teardown"
                         /\ UNCHANGED <<more_content, exhausted_by, prof_data,
                                        elapsed, phase>>
             ELSE /\ pc' = "loop"
                  /\ UNCHANGED <<exc, exhausted_by>>
                  /\ IF phase = "initial"
                       THEN /\ prof_data' = recs
                            /\ more_content' = TRUE
                            /\ elapsed' = 0
                            /\ phase' = "loop"
                       ELSE /\ prof_data' = prof_data \o recs
                            /\ elapsed' \in Advance(elapsed)
                            /\ UNCHANGED <<more_content, phase>>
    /\ tpc' = [p \in Panels |-> IF tpc[p] = "done" THEN "idle" ELSE tpc[p]]
    /\ tres' = [p \in Panels |-> IF tpc[p] = "done" THEN NoResult ELSE tres[p]]
    /\ prof_cards' = << >>
    /\ UNCHANGED <<MAX_SCROLL_TIME, driver, depth, el_class, scroll_warnings,
                   no_data_warnings, output, pageVars, clicked,
                   extractions, raised, max_workers,
                   parseVars, mainVars>>

\* line 226
LoopTest ==
    /\ pc = "loop"
    /\ IF LoopContinues(more_content, elapsed, MAX_SCROLL_TIME)
         THEN pc' = "click" /\ depth' = 0 /\ hidden' = << >> /\ el_class' = 0
              /\ overlays_made' = 0
         ELSE pc' = "after_loop" /\ UNCHANGED <<depth, hidden, el_class, overlays_made>>
    /\ UNCHANGED <<MAX_SCROLL_TIME, elapsed, driver, phase, prof_cards, tpc, tres,
                   prof_data, more_content, exc, scroll_warnings,
                   no_data_warnings, output, control, overlays, dom,
                   content, revealed, histVars, raised, max_workers,
                   parseVars, mainVars>>

\* the page puts one more overlay over the load-more control.  Overlays are
\* observed only by click_showmore's click, so they appear just before it.
OverlayAppears ==
    /\ pc = "click"
    /\ overlays_made < MaxOverlays
    /\ \E k \in OverlayKinds :
          overlays' = <<[id |-> overlays_made + 1, kind |-> k]>> \o overlays
    /\ overlays_made' = overlays_made + 1
    /\ UNCHANGED <<progVars, control, hidden, dom, content, revealed, histVars,
                   parseVars, mainVars>>

\* click_showmore, lines 158-166: pause, wait for the control to be
\* clickable, click it.  A TimeoutException leaves every nested call and is
\* caught at line 230; an interception is handled at lines 164-166.
ClickShowmore ==
    /\ pc = "click"
    /\ elapsed' \in Advance(elapsed)
    /\ clicked' = TRUE
    /\ IF ~control
         THEN \* the bounded wait for the control times out
              /\ more_content' = FALSE
              /\ exhausted_by' = "showmore"
              /\ pc' = "loop"
              /\ depth' = 0
              /\ UNCHANGED <<el_class, exc, pageVars, phase>>
         ELSE IF overlays # << >>
         THEN \* ElementClickInterceptedException naming the topmost overlay
              LET matches == InterceptMatches(Head(overlays))
              IN  /\ IF Len(matches) >= 2
                       THEN /\ el_class' = matches[2]
                            /\ pc' = "hide"
                            /\ UNCHANGED <<exc, more_content, exhausted_by, depth>>
                       ELSE \* matches[1] at line 165 raises IndexError
                            IF Caught("IndexError")
                            THEN /\ more_content' = FALSE
                                 /\ exhausted_by' = "interception"
                                 /\ pc' = "loop"
                                 /\ depth' = 0
                                 /\ UNCHANGED <<exc, el_class>>
                            ELSE /\ exc' = "IndexError"
                                 /\ pc' = "teardown"
                                 /\ UNCHANGED <<el_class, more_content,
                                                exhausted_by, depth>>
                  /\ UNCHANGED <<pageVars, phase>>
         ELSE \* the click goes through: the page renders the next panels
              /\ \E n \in 0..(MaxPanels - revealed) : \E ks \in [1..n -> PanelKinds] :
                    /\ dom' = dom \cup (revealed + 1)..(revealed + n)
                    /\ content' = [p \in Panels |->
                          IF p \in (revealed + 1)..(revealed + n)
                          THEN ks[p - revealed] ELSE content[p]]
                    /\ revealed' = revealed + n
              /\ control' \in BOOLEAN
              /\ pc' = "find"
              /\ depth' = 0
              /\ UNCHANGED <<more_content, exhausted_by, el_class, exc, overlays,
                             overlays_made, hidden, phase>>
    /\ UNCHANGED <<MAX_SCROLL_TIME, driver, prof_cards, tpc, tres, prof_data,
                   scroll_warnings, no_data_warnings, output, extractions, raised, max_workers,
                   parseVars, mainVars>>

\* lines 167-168: hide_overlay (lines 149-153), then the recursive call.
\* hide_overlay's own bounded wait raises TimeoutException when no element
\* of that class is found; it too is caught at line 230.
HideOverlay ==
    /\ pc = "hide"
    /\ elapsed' \in Advance(elapsed)
    /\ IF Located(el_class) # {}
         THEN LET i == CHOOSE j \in Located(el_class) : TRUE
              IN  /\ hidden' = Append(hidden, overlays[i].id)
                  /\ overlays' = SubSeq(overlays, 1, i - 1)
                                   \o SubSeq(overlays, i + 1, Len(overlays))
                  /\ depth' = depth + 1
                  /\ pc' = "click"
                  /\ UNCHANGED <<more_content, exhausted_by>>
         ELSE /\ more_content' = FALSE
              /\ exhausted_by' = "overlay"
              /\ pc' = "loop"
              /\ depth' = 0
              /\ UNCHANGED <<hidden, overlays>>
    /\ UNCHANGED <<MAX_SCROLL_TIME, driver, phase, prof_cards, tpc, tres, prof_data,
                   el_class, exc, scroll_warnings, no_data_warnings, output,
                   control, overlays_made, dom, content, revealed, clicked,
                   extractions, raised, max_workers,
                   parseVars, mainVars>>

\* lines 234-237
AfterLoop ==
    /\ pc = "after_loop"
    /\ scroll_warnings' = IF more_content THEN scroll_warnings + 1
                          ELSE scroll_warnings
    /\ pc' = "teardown"
    /\ UNCHANGED <<MAX_SCROLL_TIME, elapsed, driver, phase, prof_cards, tpc, tres,
                   prof_data, more_content, depth, el_class, exc, no_data_warnings,
                   output, pageVars, histVars, raised, max_workers,
                   parseVars, mainVars>>

\* leaving the with block of line 242, by a return or by an exception:
\* Firefox.__exit__ calls quit() either way
WithExitOnReturnOnly(d, e) == IF e = "none" THEN "quit" ELSE d
WithExit(d, e) == "quit"

Teardown ==
    /\ pc = "teardown"
    /\ driver' = WithExit(driver, exc)
    /\ pc' = IF exc = "none" THEN "frame" ELSE "wrap"
    /\ UNCHANGED <<MAX_SCROLL_TIME, elapsed, phase, prof_cards, tpc, tres, prof_data,
                   more_content, depth, el_class, exc, scroll_warnings,
                   no_data_warnings, output, pageVars, histVars, raised, max_workers,
                   parseVars, mainVars>>

\* lines 247-250 and 264-265: the empty-result warning, the data frame,
\* write_csv, which may fail
NoDataIsSilent(data, n) == n
NoDataWarn(data, n) == IF data = << >> THEN n + 1 ELSE n

WriteOutput ==
    /\ pc = "frame"
    /\ no_data_warnings' = NoDataWarn(prof_data, no_data_warnings)
    /\ \/ output' = prof_data /\ pc' = "done" /\ UNCHANGED exc
       \/ exc' = "OSError" /\ pc' = "wrap" /\ UNCHANGED output
    /\ UNCHANGED <<MAX_SCROLL_TIME, elapsed, driver, phase, prof_cards, tpc, tres,
                   prof_data, more_content, depth, el_class, scroll_warnings,
                   pageVars, histVars, raised, max_workers,
                   parseVars, mainVars>>

\* lines 266-268: except Exception as e: raise RuntimeError(f"... {school}
\* ...") from e.  Every exception of the session is an Exception.
ReraiseBare(e) == [type |-> e, school |-> FALSE, cause |-> "none"]
WrapError(e) == [type |-> "RuntimeError", school |-> TRUE, cause |-> e]

Wrap ==
    /\ pc = "wrap"
    /\ raised' = WrapError(exc)
    /\ pc' = "failed"
    /\ UNCHANGED <<MAX_SCROLL_TIME, elapsed, driver, phase, prof_cards, tpc, tres,
                   prof_data, more_content, depth, el_class, exc, scroll_warnings,
                   no_data_warnings, output, pageVars, histVars, max_workers,
                   parseVars, mainVars>>

Next ==
    \/ OpenSession
    \/ Navigate
    \/ FindCards
    \/ \E p \in Panels : TaskTry(p)
    \/ \E p \in Panels : FreeEnd(p)
    \/ CollectResults
    \/ LoopTest
    \/ OverlayAppears
    \/ ClickShowmore
    \/ HideOverlay
    \/ AfterLoop
    \/ Teardown
    \/ WriteOutput
    \/ Wrap

Spec == Init /\ [][Next]_vars

----------------------------------------------------------------------------
(* The session's properties *)

\* load_and_store_all_content has just returned prof_data (line 237)
Returned == pc = "teardown" /\ exc = "none"

\* the records of every panel the page has rendered, in document order
AllRecords == [p \in 1..revealed |-> RecordOf(content[p])]

\* C1: the pagination loop ends as exhausted (more_content cleared) only
\* when the bounded wait for the load-more control itself timed out, the
\* control being absent; the timeout of any other bounded wait is not taken
\* for the end of pagination.
C1_ExhaustedOnlyByShowmoreWait ==
    ~more_content => (exhausted_by = "showmore" /\ ~control)

\* C2: when the loop exits on the budget (more_content still set), the
\* driver does not raise: it returns every record accumulated so far and
\* warns of the truncation exactly once.  With a budget of 0 no activation
\* of the load-more control is attempted and the result is the records of
\* the initially visible panels, flagged truncated.
C2_BudgetExitTruncates ==
    /\ (pc = "after_loop" /\ more_content) => (exc = "none" /\ scroll_warnings = 0)
    /\ (Returned /\ more_content) => (scroll_warnings = 1 /\ prof_data = AllRecords)
    /\ scroll_warnings > 0 => (more_content /\ exc \in {"none", "OSError"})
    /\ MAX_SCROLL_TIME = 0 => ~clicked
    /\ (Returned /\ MAX_SCROLL_TIME = 0) => (more_content /\ scroll_warnings = 1)

\* the loop ran, loaded more panels and was then cut short by the budget
C2_Witness ==
    /\ Returned /\ more_content /\ clicked
    /\ scroll_warnings = 1
    /\ Len(prof_data) = MaxPanels

\* C3: the recursive retries of click_showmore are bounded by the budget:
\* a retried activation (a nested call, after an overlay was hidden) is
\* attempted only while the elapsed time is below the budget.
C3_RetriesStopAtBudget ==
    (pc = "click" /\ depth > 0) => elapsed < MAX_SCROLL_TIME

\* C4: a parse failure in one panel is not fatal to the session: the
\* session does not fail because of it.
C4_ParseFailureNotFatal ==
    pc = "failed" => exc # "ValueError"

\* C5: every panel given to extract_prof_data is detached before the call
\* returns, on every exit path, and no field of a panel is read once the
\* panel is detached (a task still in its try block has its panel attached).
C5_DetachedOnEveryExit ==
    \A p \in Panels :
        /\ tpc[p] = "done" => p \notin dom
        /\ tpc[p] = "try" => p \in dom

\* a task whose try block raised has ended, its panel detached
C5_Witness ==
    \E p \in Panels : tpc[p] = "done" /\ tres[p].tag = "raised" /\ p \notin dom

\* C6: the session's driver is used only by the thread that created it: no
\* extraction task of the inner pool has a command in flight on it.
C6_DriverOnlyUsedByOwner ==
    \A p \in Panels : tpc[p] # "freeing"

\* C9: every rendered panel is extracted by exactly one task, never again in
\* a later batch, and when no extraction fails the number of records
\* returned is the number of panels rendered over all batches.
C9_EveryPanelExtractedOnce ==
    /\ \A p \in Panels : extractions[p] <= 1
    /\ Returned =>
          /\ Len(prof_data) = revealed
          /\ \A p \in 1..revealed : extractions[p] = 1

\* a panel of a load-more batch has been extracted after an earlier batch
\* gave its records, and the session goes on
C9_Witness ==
    /\ pc = "pool" /\ phase = "loop"
    /\ prof_data # << >>
    /\ \E p \in Batch : tpc[p] = "done" /\ tres[p].tag = "record"

\* C12: every exception raised in a school's session (creating the
\* session, navigating, paginating, extracting, writing the output) leaves
\* save_school_data as an error that names the school and carries the
\* original exception as its cause; none leaves it bare, none is dropped.
C12_EveryFailureNamesSchool ==
    /\ raised # NoError <=> pc = "failed"
    /\ pc = "failed" => /\ exc # "none"
                        /\ raised.type = "RuntimeError"
                        /\ raised.school
                        /\ raised.cause = exc
    /\ pc = "done" => exc = "none"

\* a failure of the pagination loop's click came out wrapped
C12_Witness ==
    pc = "failed" /\ raised.cause = "IndexError" /\ clicked

\* C13: a session that finds no panel at all is not an error: session_data
\* emits the no-data warning exactly once, the empty collection is still
\* given to the writer, and save_school_data returns normally; a session
\* with records emits no such warning.
C13_EmptySessionWarnsAndWrites ==
    /\ (pc = "done" /\ revealed = 0) => /\ no_data_warnings = 1
                                        /\ output = << >>
                                        /\ exc = "none" /\ raised = NoError
    /\ (pc = "done" /\ revealed > 0) => no_data_warnings = 0 /\ output # << >>
    /\ (pc = "failed" /\ revealed = 0) =>
           exc \in {"WebDriverException", "IndexError", "OSError"}
    /\ no_data_warnings <= 1

\* the page had no panel, the load-more control was tried in vain, and the
\* empty output was written
C13_Witness ==
    pc = "done" /\ revealed = 0 /\ clicked /\ output = << >> /\ no_data_warnings = 1

\* the positions at which the session's thread sends commands to the driver
DriverInUse ==
    \/ pc \in {"navigate", "find", "pool", "click", "hide"}
    \/ \E p \in Panels : tpc[p] \in {"queued", "try", "freeing"}

\* C14: the browser session is shut down on every way out of session_data,
\* whether pagination completed, was cut short by the budget or raised; it
\* is shut down before session_data returns or lets the exception go, and
\* no command is sent to it afterwards.  Only a session that could not be
\* created has nothing to shut down.
C14_DriverQuitOnEveryExit ==
    /\ pc \in {"frame", "done"} => driver = "quit"
    /\ pc \in {"wrap", "failed"} =>
           \/ driver = "quit"
           \/ driver = "none" /\ exc = "WebDriverException" /\ revealed = 0
    /\ driver = "quit" => ~DriverInUse
    /\ DriverInUse => driver = "open"

\* an extraction failure went up through session_data: the driver is shut
\* down before the failure is wrapped
C14_Witness ==
    pc = "wrap" /\ exc = "ValueError" /\ driver = "quit"

\* what extract_prof_data returns or raises for a panel of content c
ResultOf(c) ==
    IF TryBlock(c) = "ok"
    THEN [tag |-> "record", exc |-> "none", rec |-> RecordOf(c)]
    ELSE [tag |-> "raised", exc |-> TryBlock(c), rec |-> NoRecord]

\* C15: the concurrent extraction of a batch gives the same collection
\* whatever the order in which its tasks run and finish and whatever the
\* inner pool's capacity (1 or more): every task's result depends on its
\* own panel only, and the records are accumulated in document order.
C15_BatchIndependentOfSchedule ==
    /\ \A p \in Panels : tres[p].tag # "none" => tres[p] = ResultOf(content[p])
    /\ Len(prof_data) <= revealed
    /\ \A i \in 1..Len(prof_data) : prof_data[i] = RecordOf(content[i])
    /\ pc \in {"loop", "click", "hide", "after_loop"} =>
           Len(prof_data) = revealed - Cardinality(dom)

\* the second panel's task has finished while the first panel's has not
\* yet read its panel
C15_Witness ==
    /\ max_workers > 1
    /\ pc = "pool" /\ Batch = {1, 2}
    /\ tpc[2] = "done" /\ tres[2].tag = "record"
    /\ tpc[1] = "try"

\* with one worker the second panel's task waits for the first to finish
C15_WitnessSerial ==
    /\ max_workers = 1
    /\ pc = "pool" /\ Batch = {1, 2}
    /\ tpc[1] = "done" /\ tpc[2] = "try"

\* click_showmore raised at line 165: the interception message named no
\* class beside the control's own
UnparsedInterception == exc = "IndexError" /\ overlays # << >>

\* C16: when the load-more click is intercepted and the failure detail
\* names no class of a blocking element, click_showmore hides nothing and
\* does not retry; the failure goes up, is not taken for the end of
\* pagination, and the school's session fails.
C16_UnparsedInterceptionFails ==
    /\ exhausted_by # "interception"
    /\ UnparsedInterception =>
           /\ Head(overlays).kind = "noclass"
           /\ \A i \in 1..Len(hidden) : hidden[i] # Head(overlays).id
           /\ depth = Len(hidden)
           /\ more_content
           /\ pc \in {"teardown", "wrap", "failed"}
           /\ scroll_warnings = 0 /\ no_data_warnings = 0
           /\ output = <<"unwritten">>

\* the first overlay was hidden, the second one could not be identified
C16_Witness ==
    UnparsedInterception /\ pc = "failed" /\ Len(hidden) = 1

\* the overlays the current call of click_showmore has hidden
Hidden == {hidden[i] : i \in 1..Len(hidden)}

\* C17: of the overlays stacked over the load-more control, each reported
\* as the blocker once the one above it is hidden, one call of
\* click_showmore hides every one, each once and in the order reported,
\* and then clicks the control through; a hidden overlay stays in the
\* document and blocks no more.
C17_StackedOverlaysAllHidden ==
    /\ \A i, j \in 1..Len(hidden) : i # j => hidden[i] # hidden[j]
    /\ \A i \in 1..Len(overlays) : overlays[i].id \notin Hidden
    /\ pc = "hide" => /\ overlays # << >>
                      /\ el_class = Head(overlays).id
                      /\ Len(hidden) = depth
    /\ (pc \notin {"click", "hide"} /\ el_class # 0) => el_class \in Hidden
    /\ (pc = "find" /\ phase = "loop") => overlays = << >>

\* an exception of extract_prof_data is on its way up
ExtractionFailed ==
    /\ exc \in {"ValueError", "NoSuchElementException", "IndexError",
                "StaleElementReferenceException"}
    /\ ~UnparsedInterception

\* C18: when the extraction of one panel raises, every other panel of its
\* batch is still processed and detached before store_and_delete_cards
\* lets the failure go: no task of the batch is cut short or left running.
C18_SiblingsFinishBeforeFailure ==
    ExtractionFailed =>
        /\ pc \in {"teardown", "wrap", "failed"}
        /\ dom = {}
        /\ \A p \in Panels : tpc[p] = "idle"
        /\ \A p \in 1..revealed : extractions[p] = 1

\* the first panel of the initial batch raised, the second one was good
C18_Witness ==
    /\ ExtractionFailed /\ pc = "teardown" /\ phase = "initial"
    /\ revealed = 2
    /\ TryBlock(content[1]) = exc
    /\ TryBlock(content[2]) = "ok"

\* an extract_prof_data task of the inner pool has not ended yet
InFlight(p) == tpc[p] \in {"queued", "try", "freeing"}

\* C19: within a session the activation of the load-more control and the
\* extraction of a batch never overlap: the tasks of a batch start only
\* after the click has gone through, and neither the next test of the
\* budget nor the next activation begins while a task is unfinished.
C19_ActivationAndExtractionDisjoint ==
    /\ \A p \in Panels : InFlight(p) => pc = "pool"
    /\ pc = "pool" => depth = 0 /\ overlays = << >>
    /\ pc \in {"loop", "click", "hide", "after_loop"} =>
           /\ prof_cards = << >>
           /\ \A p \in Panels : tpc[p] = "idle"

\* a batch revealed by a click that needed an overlay hidden is being
\* extracted: one task has read its panel, the other has not
C19_Witness ==
    /\ pc = "pool" /\ phase = "loop" /\ Len(hidden) = 1
    /\ \E p, q \in Panels : tpc[p] = "freeing" /\ tpc[q] = "try"

====
